---- MODULE Spec2Model ----
(***************************************************************************)
(* Model of chess-AI/stockfish_train.py: class StockfishTrain.             *)
(*                                                                         *)
(*   - the live helper methods sig, choose_move, update_dataset_stats,     *)
(*     get_value and get_move_probs, called one at a time by a client      *)
(*     (specifications StatsSpec and FnSpec);                              *)
(*   - the generation loop build_dataset (lines 79-143 of the file, kept   *)
(*     there as a disabled block), one action per loop iteration           *)
(*     (specification Spec).                                               *)
(*                                                                         *)
(* The chess rules engine (python-chess) and the Stockfish process are     *)
(* collaborators outside the repository.  The rules engine is a scripted   *)
(* game over three move codes; the oracle's answers (ranking order, raw    *)
(* score) and the random draws are nondeterministic choices.               *)
(***************************************************************************)
EXTENDS Integers, Sequences, FiniteSets, TLC

VARIABLES
    num_moves,       \* build_dataset's argument
    it,              \* iterations of `for _ in range(int(num_moves))` completed
    pc,              \* "loop" | "done" | "raised"; the clients: "idle" | "returned"
    board,           \* chess.Board: its move stack
    player,          \* 1 = white, -1 = black
    move_count,
    fen_string,
    dataset_stats,
    fen_strings, move_values, move_probs,
    pushed,          \* history: number of board.push calls made by the loop
    stockfish_fen,   \* the position last given to Stockfish.set_fen_position
    calls,           \* history: arguments of every update_dataset_stats call
    last             \* the last helper call made by the client, with its result

vars == << num_moves, it, pc, board, player, move_count, fen_string,
           dataset_stats, fen_strings, move_values, move_probs, pushed,
           stockfish_fen, calls, last >>

(***************************************************************************)
(* Bounds of the model.                                                    *)
(***************************************************************************)
MaxPlies == 6        \* largest num_moves given to build_dataset
MaxGameLen == 4      \* plies after which the scripted engine declares a draw
MaxScore == 2        \* raw scores given to get_value: -MaxScore..MaxScore
MaxStubScore == 1    \* raw scores the oracle returns inside build_dataset
MaxCalls == 2        \* update_dataset_stats calls made by the client
MaxMoveCount == 2    \* move_count arguments given by the client
MaxElapsed == 1      \* wall-clock seconds measured by build_dataset

(***************************************************************************)
(* chess (python-chess): squares, moves, boards.                           *)
(***************************************************************************)
FILE_NAMES == << "a", "b", "c", "d", "e", "f", "g", "h" >>
RANK_NAMES == << "1", "2", "3", "4", "5", "6", "7", "8" >>

IndexOf(names, c) == CHOOSE k \in 1..Len(names) : names[k] = c

\* chess.parse_square: "a1" -> 0, "b1" -> 1, ..., "h8" -> 63
parse_square(f, r) == (IndexOf(FILE_NAMES, f) - 1) + 8 * (IndexOf(RANK_NAMES, r) - 1)

\* chess.Move.from_uci: a UCI string (here its four characters) to a Move
from_uci(uci) ==
    [from_square |-> parse_square(uci[1], uci[2]),
     to_square   |-> parse_square(uci[3], uci[4])]

\* the three move codes of the scripted game
UciA == << "a", "2", "a", "3" >>
UciB == << "b", "2", "b", "3" >>
UciC == << "c", "2", "c", "3" >>
UciMoves == { UciA, UciB, UciC }

WHITE == TRUE
BLACK == FALSE

\* chess.Board(): the initial position, empty move stack
Board == << >>

\* board.push(move)
push(b, move) == Append(b, move)

\* board.turn
turn(b) == IF Len(b) % 2 = 0 THEN WHITE ELSE BLACK

EndsWith(b, uci) ==
    /\ Len(b) >= 2
    /\ b[Len(b)] = from_uci(uci)
    /\ b[Len(b) - 1] = from_uci(uci)

\* board.is_checkmate(): scripted, the side to move has been mated
is_checkmate(b) == EndsWith(b, UciA)

\* board.is_stalemate(): scripted
is_stalemate(b) == EndsWith(b, UciB)

\* board.is_game_over(): checkmate, stalemate or a draw by the move limit
is_game_over(b) == is_checkmate(b) \/ is_stalemate(b) \/ Len(b) >= MaxGameLen

\* board.legal_moves, as UCI codes
legal_moves(b) ==
    IF is_game_over(b) THEN {}
    ELSE IF b = Board THEN { UciA, UciB, UciC }
    ELSE IF b[Len(b)] = from_uci(UciC) THEN { UciA }
    ELSE { UciA, UciB }

\* board.fen(): placement (the stack stands for it), side to move, full-move number
fen(b) ==
    [placement |-> b,
     active    |-> IF turn(b) = WHITE THEN "w" ELSE "b",
     fullmove  |-> (Len(b) \div 2) + 1]

SeqsUpTo(S, n) == UNION { [1..k -> S] : k \in 0..n }

\* the positions of the scripted game that play from the initial position reaches
Boards ==
    { b \in SeqsUpTo({ from_uci(u) : u \in UciMoves }, MaxGameLen) :
        \A k \in 1..Len(b) :
            \E u \in legal_moves(SubSeq(b, 1, k - 1)) : b[k] = from_uci(u) }

(***************************************************************************)
(* Randomness and the Stockfish oracle.                                    *)
(***************************************************************************)
\* np.random.rand(): a sample of [0, 1), in RandSteps equal steps (e / RandSteps)
RandSteps == 10
rand == 0..(RandSteps - 1)

\* epsilon = 0.3, in the same steps
epsilon == 3

\* random.randint(a, b): an integer of a..b, both ends included
randint(a, b) == a..b

Range(s) == { s[k] : k \in 1..Len(s) }

Perms(S) == { s \in [1..Cardinality(S) -> S] : Range(s) = S }

\* Stockfish.get_top_moves(n): the n best moves, best first, as {"Move": ...}
get_top_moves(b, n) ==
    { [k \in 1..n |-> [Move |-> s[k]]] : s \in Perms(legal_moves(b)) }

\* Stockfish.get_evaluation(): {"type": "cp", "value": v}
get_evaluation(bound) == { [type |-> "cp", value |-> v] : v \in (0 - bound)..bound }

(***************************************************************************)
(* Arithmetic of sig and get_value: exact fractions num/den with den > 0.  *)
(* np.exp is taken to the base EulerNum/EulerDen.                          *)
(***************************************************************************)
EulerNum == 8
EulerDen == 3

RECURSIVE Pow(_, _)
Pow(x, n) == IF n = 0 THEN 1 ELSE x * Pow(x, n - 1)

exp(v) ==
    IF v >= 0 THEN [num |-> Pow(EulerNum, v), den |-> Pow(EulerDen, v)]
    ELSE [num |-> Pow(EulerDen, 0 - v), den |-> Pow(EulerNum, 0 - v)]

Less(x, y) == x.num * y.den < y.num * x.den
One == [num |-> 1, den |-> 1]
MinusOne == [num |-> 0 - 1, den |-> 1]

\* the slip of writing the usual logistic function 1 / (1 + exp(-value))
sig_negated(value) ==
    LET x == exp(0 - value) IN [num |-> x.den, den |-> x.den + x.num]

\* sig: 1 / (1 + np.exp(value))
sig(value) ==
    LET x == exp(value) IN [num |-> x.den, den |-> x.den + x.num]

\* get_value: 1 - 2 * sig(evaluation["value"] * player), player from board.turn
get_value(b, evaluation) ==
    LET p == IF turn(b) = WHITE THEN 1 ELSE 0 - 1
        s == sig(evaluation.value * p)
    IN  [num |-> s.den - 2 * s.num, den |-> s.den]

(***************************************************************************)
(* choose_move                                                             *)
(***************************************************************************)
\* the slip of drawing the random index from 1..len-1, never the top move
choose_move_skip_top(moves, e) ==
    IF e < epsilon THEN { moves[1] }
    ELSE { moves[r + 1] : r \in randint(1, Len(moves) - 1) }

\* choose_move(moves) with e = np.random.rand(): the moves it can return
choose_move(moves, e) ==
    IF e < epsilon THEN { moves[1] }
    ELSE { moves[r + 1] : r \in randint(0, Len(moves) - 1) }

(***************************************************************************)
(* get_move_probs                                                          *)
(***************************************************************************)
\* the slip of never setting bestmove = True
RECURSIVE rank_loop_no_flag(_, _, _, _, _)
rank_loop_no_flag(topmoves, k, moves, search_probs, bestmove) ==
    IF k > Len(topmoves) THEN [moves |-> moves, search_probs |-> search_probs]
    ELSE rank_loop_no_flag(topmoves, k + 1, Append(moves, topmoves[k].Move),
                           Append(search_probs, 1), bestmove)

\* the loop `for move in stockfish_topmoves`, from its k-th element on
RECURSIVE rank_loop(_, _, _, _, _)
rank_loop(topmoves, k, moves, search_probs, bestmove) ==
    IF k > Len(topmoves) THEN [moves |-> moves, search_probs |-> search_probs]
    ELSE LET curr_move == topmoves[k].Move IN
         IF bestmove = FALSE
         THEN rank_loop(topmoves, k + 1, Append(moves, curr_move),
                        Append(search_probs, 1), TRUE)
         ELSE rank_loop(topmoves, k + 1, Append(moves, curr_move),
                        Append(search_probs, 0), bestmove)

\* get_move_probs(board): the (moves, search_probs, move) it can return, given
\* the oracle's ranking and the draw e.  full_search_probs is computed by the
\* policy converter and dropped.
get_move_probs(topmoves, e) ==
    LET r == rank_loop(topmoves, 1, << >>, << >>, FALSE) IN
    { [moves |-> r.moves, search_probs |-> r.search_probs, move |-> m] :
        m \in choose_move(r.moves, e) }

(***************************************************************************)
(* update_dataset_stats                                                    *)
(***************************************************************************)
\* the slip of returning early from the stalemate branch
update_dataset_stats_early_return(stats, b, p, count) ==
    IF is_stalemate(b)
    THEN [stats EXCEPT !.stalemates = @ + 1]
    ELSE [stats EXCEPT !.black_wins = IF p = 1 THEN 5 ELSE @,
                       !.white_wins = IF p = 1 THEN @ ELSE @ + 1,
                       !.completed_games = @ + 1,
                       !.game_moves = Append(@, count)]

\* the slip of an `if` without `else`: a stalemate also counts as a win
update_dataset_stats_no_else(stats, b, p, count) ==
    [stats EXCEPT !.stalemates = IF is_stalemate(b) THEN @ + 1 ELSE @,
                  !.black_wins = IF p = 1 THEN 5 ELSE @,
                  !.white_wins = IF p = 1 THEN @ ELSE @ + 1,
                  !.completed_games = @ + 1,
                  !.game_moves = Append(@, count)]

\* update_dataset_stats(dataset_stats, board, player, move_count)
update_dataset_stats(stats, b, p, count) ==
    LET counted ==
            IF is_stalemate(b)
            THEN [stats EXCEPT !.stalemates = @ + 1]
            ELSE IF p = 1
                 THEN [stats EXCEPT !.black_wins = 5]
                 ELSE [stats EXCEPT !.white_wins = @ + 1]
    IN  [counted EXCEPT !.completed_games = @ + 1,
                        !.game_moves = Append(@, count)]

\* the dictionary build_dataset starts from
ZeroStats ==
    [stalemates |-> 0, black_wins |-> 0, white_wins |-> 0,
     game_moves |-> << >>, completed_games |-> 0]

(***************************************************************************)
(* build_dataset                                                           *)
(***************************************************************************)
\* a local name of build_dataset that no assignment has bound yet
Unbound == [unbound |-> TRUE]

\* simulate_move(board, fen_strings, move_probs, move_values, fen_string, player):
\* records one training example tagged fen_string (targets from get_move_probs
\* and get_value) and returns the chosen move; the lists as it leaves them.
simulate_move(b, fens, probs, values, tag, p, topmoves, e, evaluation) ==
    { [move        |-> g.move,
       fen_strings |-> Append(fens, tag),
       move_probs  |-> Append(probs, g.search_probs),
       move_values |-> Append(values, get_value(b, evaluation))] :
        g \in get_move_probs(topmoves, e) }

\* state on entry to the loop (lines 85-106)
Init ==
    /\ num_moves \in 0..MaxPlies
    /\ it = 0
    /\ pc = "loop"
    /\ board = Board
    /\ player = 1
    /\ move_count = 0
    /\ fen_string = Unbound
    /\ dataset_stats = ZeroStats
    /\ fen_strings = << >>
    /\ move_values = << >>
    /\ move_probs = << >>
    /\ pushed = 0
    /\ stockfish_fen = fen(Board)
    /\ calls = << >>
    /\ last = [fn |-> "none"]

\* an iteration that finds the game over (lines 110-117)
ResetIteration ==
    /\ pc = "loop"
    /\ it < num_moves
    /\ is_game_over(board)
    /\ dataset_stats' = update_dataset_stats(dataset_stats, board, player, move_count)
    /\ calls' = Append(calls, [board |-> board, player |-> player,
                               move_count |-> move_count])
    /\ board' = Board
    /\ player' = 1
    /\ it' = it + 1
    /\ UNCHANGED << num_moves, pc, move_count, fen_string, fen_strings,
                    move_values, move_probs, pushed, stockfish_fen, last >>

\* line 119 in an iteration that reads fen_string before line 126 ever ran:
\* UnboundLocalError ends the run
RaiseUnbound ==
    /\ pc = "loop"
    /\ it < num_moves
    /\ ~ is_game_over(board)
    /\ fen_string = Unbound
    /\ pc' = "raised"
    /\ UNCHANGED << num_moves, it, board, player, move_count, fen_string,
                    dataset_stats, fen_strings, move_values, move_probs,
                    pushed, stockfish_fen, calls, last >>

\* an iteration that plays one ply (lines 119-126); the first one is played
\* with the tag still unbound, as if line 119 could read it
PlyIteration ==
    /\ pc = "loop"
    /\ it < num_moves
    /\ ~ is_game_over(board)
    /\ \E topmoves \in get_top_moves(board, Cardinality(legal_moves(board))),
          e \in rand, evaluation \in get_evaluation(MaxStubScore) :
         \E sm \in simulate_move(board, fen_strings, move_probs, move_values,
                                 fen_string, player, topmoves, e, evaluation) :
            LET move == from_uci(sm.move) IN
            /\ fen_strings' = sm.fen_strings
            /\ move_probs' = sm.move_probs
            /\ move_values' = sm.move_values
            /\ move_count' = move_count + 1
            /\ board' = push(board, move)
            /\ pushed' = pushed + 1
            /\ player' = player * (0 - 1)
            /\ fen_string' = fen(push(board, move))
    /\ stockfish_fen' = fen(board)
    /\ it' = it + 1
    /\ UNCHANGED << num_moves, pc, dataset_stats, calls, last >>

\* the loop is exhausted (lines 128-130): the elapsed time joins the statistics
Finish ==
    /\ pc = "loop"
    /\ it = num_moves
    /\ \E elapsed \in 0..MaxElapsed :
         dataset_stats' = [time |-> elapsed] @@ dataset_stats
    /\ pc' = "done"
    /\ UNCHANGED << num_moves, it, board, player, move_count, fen_string,
                    fen_strings, move_values, move_probs, pushed,
                    stockfish_fen, calls, last >>

Next == ResetIteration \/ RaiseUnbound \/ PlyIteration \/ Finish

Spec == Init /\ [][Next]_vars

(***************************************************************************)
(* A client of update_dataset_stats: any finished games, any move counts.  *)
(***************************************************************************)
ApiInit ==
    /\ num_moves = 0
    /\ it = 0
    /\ pc = "idle"
    /\ board = Board
    /\ player = 1
    /\ move_count = 0
    /\ fen_string = Unbound
    /\ dataset_stats = ZeroStats
    /\ fen_strings = << >>
    /\ move_values = << >>
    /\ move_probs = << >>
    /\ pushed = 0
    /\ stockfish_fen = fen(Board)
    /\ calls = << >>
    /\ last = [fn |-> "none"]

\* the side to move as build_dataset tracks it: 1 = white, -1 = black
PlayerOf(b) == IF turn(b) = WHITE THEN 1 ELSE 0 - 1

CallUpdateDatasetStats ==
    /\ pc = "idle"
    /\ Len(calls) < MaxCalls
    /\ \E b \in { x \in Boards : is_game_over(x) }, count \in 0..MaxMoveCount :
         /\ dataset_stats' = update_dataset_stats(dataset_stats, b, PlayerOf(b), count)
         /\ calls' = Append(calls, [board |-> b, player |-> PlayerOf(b),
                                    move_count |-> count])
    /\ UNCHANGED << num_moves, it, pc, board, player, move_count, fen_string,
                    fen_strings, move_values, move_probs, pushed,
                    stockfish_fen, last >>

StatsNext == CallUpdateDatasetStats

StatsSpec == ApiInit /\ [][StatsNext]_vars

(***************************************************************************)
(* A client of get_value, get_move_probs and choose_move.                  *)
(***************************************************************************)
\* the ranked lists given to choose_move: every order of some legal moves
RankedLists == UNION { Perms(S) : S \in (SUBSET UciMoves) \ { {} } }

CallGetValue ==
    /\ pc = "idle"
    /\ \E b \in Boards, evaluation \in get_evaluation(MaxScore) :
         last' = [fn |-> "get_value", board |-> b, evaluation |-> evaluation,
                  result |-> get_value(b, evaluation)]
    /\ pc' = "returned"
    /\ UNCHANGED << num_moves, it, board, player, move_count, fen_string,
                    dataset_stats, fen_strings, move_values, move_probs,
                    pushed, stockfish_fen, calls >>

CallGetMoveProbs ==
    /\ pc = "idle"
    /\ \E b \in { x \in Boards : ~ is_game_over(x) } :
         \E topmoves \in get_top_moves(b, Cardinality(legal_moves(b))), e \in rand :
            \E g \in get_move_probs(topmoves, e) :
               /\ stockfish_fen' = fen(b)
               /\ last' = [fn |-> "get_move_probs", board |-> b,
                           topmoves |-> topmoves, e |-> e, result |-> g]
    /\ pc' = "returned"
    /\ UNCHANGED << num_moves, it, board, player, move_count, fen_string,
                    dataset_stats, fen_strings, move_values, move_probs,
                    pushed, calls >>

CallChooseMove ==
    /\ pc = "idle"
    /\ \E moves \in RankedLists, e \in rand :
         \E m \in choose_move(moves, e) :
            last' = [fn |-> "choose_move", moves |-> moves, e |-> e, result |-> m]
    /\ pc' = "returned"
    /\ UNCHANGED << num_moves, it, board, player, move_count, fen_string,
                    dataset_stats, fen_strings, move_values, move_probs,
                    pushed, stockfish_fen, calls >>

\* the client has read the result and is ready for its next call
Return ==
    /\ pc = "returned"
    /\ pc' = "idle"
    /\ last' = [fn |-> "none"]
    /\ UNCHANGED << num_moves, it, board, player, move_count, fen_string,
                    dataset_stats, fen_strings, move_values, move_probs,
                    pushed, stockfish_fen, calls >>

FnNext == CallGetValue \/ CallGetMoveProbs \/ CallChooseMove \/ Return

FnSpec == ApiInit /\ [][FnNext]_vars

(***************************************************************************)
(* Properties.                                                             *)
(***************************************************************************)
RECURSIVE SumSeq(_)
SumSeq(s) == IF s = << >> THEN 0 ELSE s[1] + SumSeq(Tail(s))

Recorded == Len(calls') = Len(calls) + 1
LastCall == calls'[Len(calls')]

\* C1: choose_move returns moves[0] when e < 0.3; otherwise any index of the
\* whole list, index 0 included, can be returned; the result is always a
\* member of moves.
C1_ChooseMove ==
    last.fn = "choose_move" =>
        /\ last.result \in Range(last.moves)
        /\ last.e < epsilon => last.result = last.moves[1]
        /\ last.e >= epsilon => choose_move(last.moves, last.e) = Range(last.moves)

\* C1 witness: the random branch returned the top move of a three-move list
C1_Witness ==
    /\ last.fn = "choose_move"
    /\ last.e >= epsilon
    /\ Len(last.moves) = 3
    /\ last.result = last.moves[1]

\* C2: recording a game that one side won adds exactly one to the winner's
\* counter and leaves the other side's counter alone, for White and for Black.
C2_WinnerIncrement ==
    [][(Recorded /\ is_checkmate(LastCall.board)) =>
          IF LastCall.player = 1
          THEN /\ dataset_stats'.black_wins = dataset_stats.black_wins + 1
               /\ dataset_stats'.white_wins = dataset_stats.white_wins
          ELSE /\ dataset_stats'.white_wins = dataset_stats.white_wins + 1
               /\ dataset_stats'.black_wins = dataset_stats.black_wins]_vars

\* C3: from zeroed statistics, completed_games is the number of calls and
\* game_moves is the move_count arguments in call order, whatever the outcomes.
C3_CountsAndHistory ==
    /\ dataset_stats.completed_games = Len(calls)
    /\ dataset_stats.game_moves = [k \in 1..Len(calls) |-> calls[k].move_count]

\* C3 witness: a stalemate and then a win, with different move counts
C3_Witness ==
    /\ Len(calls) = 2
    /\ is_stalemate(calls[1].board)
    /\ is_checkmate(calls[2].board)
    /\ calls[1].move_count > calls[2].move_count
    /\ dataset_stats.completed_games = 2

\* C4: a stalemate adds exactly one to stalemates and leaves both win counters
\* alone; any other game leaves stalemates alone.
C4_StalemateFrame ==
    [][Recorded =>
          IF is_stalemate(LastCall.board)
          THEN /\ dataset_stats'.stalemates = dataset_stats.stalemates + 1
               /\ dataset_stats'.white_wins = dataset_stats.white_wins
               /\ dataset_stats'.black_wins = dataset_stats.black_wins
          ELSE dataset_stats'.stalemates = dataset_stats.stalemates]_vars

\* C4 witness: a stalemate was recorded after a win
C4_Witness ==
    /\ Len(calls) = 2
    /\ is_checkmate(calls[1].board)
    /\ is_stalemate(calls[2].board)
    /\ dataset_stats.stalemates = 1

C9_OneHot ==
    last.fn = "get_move_probs" =>
        LET r == last.result IN
        /\ Len(r.moves) = Len(last.topmoves)
        /\ Len(r.search_probs) = Len(r.moves)
        /\ r.moves[1] = last.topmoves[1].Move
        /\ r.search_probs[1] = 1
        /\ \A k \in 2..Len(r.search_probs) : r.search_probs[k] = 0
        /\ SumSeq(r.search_probs) = 1

\* C9 witness: a ranking of three moves went through get_move_probs
C9_Witness ==
    /\ last.fn = "get_move_probs"
    /\ Len(last.result.search_probs) = 3
    /\ last.result.move # last.result.moves[1]

====
